---------------------------- MODULE Spec2Model ----------------------------
(***************************************************************************)
(* Model of src/scraper.py: the crawl-extract-enrich pipeline of the       *)
(* quotes scraper (fetch_page, parse_quotes, parse_author,                 *)
(* get_author_info, scrape_all, save_to_csv, main).                        *)
(*                                                                         *)
(* Strings are sequences of one-character strings, so that strip() and     *)
(* startswith() are computed as Python computes them.  An optional value   *)
(* (Python's None, a missing element) is a sequence of length 0 or 1:      *)
(* None is <<>> and a present value x is <<x>>.                            *)
(***************************************************************************)
EXTENDS Integers, Sequences, FiniteSets, TLC

VARIABLES
    pc,            \* position of main / scrape_all
    next_url,      \* scrape_all: the pagination cursor (optional string)
    soup,          \* scrape_all: the parsed listing page of the iteration
    quotes,        \* scrape_all: parse_quotes(soup)
    qi,            \* scrape_all: index of the fragment the for loop is at
    author_cache,  \* scrape_all: author_url -> author info
    all_rows,      \* scrape_all: rows accumulated so far
    rows,          \* main: the value scrape_all returned (optional)
    exc,           \* the exception in flight or that ended the run
    exit,          \* process exit (optional record)
    stdout,        \* what was printed
    csv_file,      \* contents of output.csv (optional sequence of lines)
    saved,         \* every save_to_csv call made: the rows it was given
    fetched,       \* every session.get call made, in order
    site,          \* the server: listing pages it has served, by URL
    call           \* the driver's record in ResolveSpec, UrlSpec and TextSpec

vars == <<pc, next_url, soup, quotes, qi, author_cache, all_rows, rows, exc,
          exit, stdout, csv_file, saved, fetched, site, call>>

-----------------------------------------------------------------------------
(* Bounds of the model *)

\* most listing fetches of one run (a cyclic site never ends the crawl)
MaxFetches == 3
\* most consecutive calls of get_author_info the driver of ResolveSpec makes
MaxCalls == 2
\* most characters of an href after its scheme-and-host prefix (UrlSpec)
MaxHrefLen == 4
\* most resolutions in a row the driver of UrlSpec makes
MaxResolves == 2
\* most characters of the content of a span.text element (TextSpec)
MaxTextLen == 4
\* most quote records on the listing pages of the site, all pages together
MaxQuotes == 3

-----------------------------------------------------------------------------
(* Optional values and strings *)

None == <<>>
Some(x) == <<x>>
IsSome(o) == o # <<>>
Val(o) == o[1]

Q == "\""
SLASH == "/"
WS == {" ", "\n", "\t"}

RECURSIVE LStrip(_, _)
LStrip(s, cs) == IF s # <<>> /\ Head(s) \in cs THEN LStrip(Tail(s), cs) ELSE s

RECURSIVE RStrip(_, _)
RStrip(s, cs) ==
    IF s # <<>> /\ s[Len(s)] \in cs THEN RStrip(SubSeq(s, 1, Len(s) - 1), cs) ELSE s

\* str.strip(chars): every leading and trailing character in cs is removed
strip(s, cs) == RStrip(LStrip(s, cs), cs)

\* str.startswith(p)
startswith(s, p) == Len(s) >= Len(p) /\ SubSeq(s, 1, Len(p)) = p

\* Tag.get_text(strip=True) of an element holding one text node
get_text(el) == strip(el, WS)

RECURSIVE join(_, _)
join(sep, ss) ==
    IF ss = <<>> THEN <<>>
    ELSE IF Len(ss) = 1 THEN ss[1]
    ELSE ss[1] \o sep \o join(sep, Tail(ss))

HTTP == <<"h", "t", "t", "p">>

BASE_URL ==
    <<"h", "t", "t", "p", "s", ":", "/", "/", "q", "u", "o", "t", "e", "s", ".",
      "t", "o", "s", "c", "r", "a", "p", "e", ".", "c", "o", "m">>


-----------------------------------------------------------------------------
(* The documents the server can return *)

\* A div.quote element: its span.text, its small.author, the href of its
\* first a[href*='/author/'] and the texts of its div.tags a.tag elements.
DivPlain ==
    [text |-> Some(<<Q, "u", Q>>), author |-> Some(<<"N">>), href |-> None,
     tags |-> <<>>]
DivA ==
    [text |-> Some(<<Q, "v", Q>>), author |-> Some(<<"A">>),
     href |-> Some(<<"/", "a", "u", "t", "h", "o", "r", "/", "a", "/">>),
     tags |-> << <<"t">>, <<"s">> >>]
DivB ==
    [text |-> Some(<<"w">>), author |-> Some(<<"B">>),
     href |-> Some(<<"/", "a", "u", "t", "h", "o", "r", "/", "b">>),
     tags |-> << <<"t">> >>]
Divs == {DivPlain, DivA, DivB}

SeqsUpTo(S, n) == UNION {[1..k -> S] : k \in 0..n}

Digit(k) == <<"0", "1", "2", "3", "4", "5", "6", "7", "8", "9">>[k + 1]

\* href of the link to listing page k
PageHref(k) == <<"/", "p", "a", "g", "e", "/", Digit(k), "/">>

\* The li.next a element of the k-th listing page the server hands out:
\* no such element, an element without href, an element with an empty
\* href, a link to page k+1, or a link back to the root.
NextLinks(k) ==
    {None, Some([href |-> None]), Some([href |-> Some(<<>>)]),
     Some([href |-> Some(PageHref(k + 1))]), Some([href |-> Some(<<SLASH>>)])}

\* the k-th listing page of a site that has room for n more quote records
ListingPages(k, n) == [divs : SeqsUpTo(Divs, n), next : NextLinks(k)]

\* An author profile page: h3.author-title, span.author-born-date and
\* span.author-born-location, each optional.
AuthorPageFull ==
    [title |-> Some(<<"A">>), born |-> Some(<<"1">>),
     location |-> Some(<<"i", "n", " ", "X">>)]
AuthorPageBare == [title |-> None, born |-> None, location |-> None]
AuthorPages == {AuthorPageFull, AuthorPageBare}

-----------------------------------------------------------------------------
(* parse_quotes, parse_author *)

\* lines 56-60: the absolute URL of the author link, "" when there is none
author_url_of(author_link) ==
    IF IsSome(author_link) /\ Val(author_link) # <<>>
    THEN LET u == strip(Val(author_link), {SLASH})
         IN  IF ~startswith(u, HTTP) THEN BASE_URL \o <<SLASH>> \o u ELSE u
    ELSE <<>>

parse_quote_div(d) ==
    [quote_text  |-> IF IsSome(d.text) THEN strip(get_text(Val(d.text)), {Q}) ELSE <<>>,
     author_name |-> IF IsSome(d.author) THEN get_text(Val(d.author)) ELSE <<>>,
     tags        |-> join(<<",">>, [i \in 1..Len(d.tags) |-> get_text(d.tags[i])]),
     author_url  |-> author_url_of(d.href)]

parse_quotes(page) == [i \in 1..Len(page.divs) |-> parse_quote_div(page.divs[i])]

\* re.sub(r"^\s*in\s+", "", raw, flags=re.IGNORECASE).strip()
strip_in(raw) ==
    LET a == LStrip(raw, WS)
        cut == IF Len(a) >= 3 /\ a[1] \in {"i", "I"} /\ a[2] \in {"n", "N"} /\ a[3] \in WS
               THEN LStrip(SubSeq(a, 3, Len(a)), WS)
               ELSE raw
    IN  strip(cut, WS)

parse_author(page) ==
    [full_name   |-> IF IsSome(page.title) THEN get_text(Val(page.title)) ELSE <<>>,
     birth_date  |-> IF IsSome(page.born) THEN get_text(Val(page.born)) ELSE <<>>,
     birth_place |-> IF IsSome(page.location)
                     THEN strip_in(get_text(Val(page.location))) ELSE <<>>]

EmptyInfo == [full_name |-> <<>>, birth_date |-> <<>>, birth_place |-> <<>>]

-----------------------------------------------------------------------------
(* Exceptions *)

NoExc == [type |-> "none", url |-> <<>>]
\* raised by fetch_page(url): connection error, timeout or non-2xx status
RequestException(url) == [type |-> "RequestException", url |-> url]
\* raised by line 171, whose f-string reads the name e that nothing binds
NameError == [type |-> "NameError", url |-> <<>>]

-----------------------------------------------------------------------------
(* get_author_info *)

EmptyCache == [u \in {} |-> EmptyInfo]

\* a lookup that never finds the URL
in_cache_never(author_url, cache) == FALSE

\* line 125
in_cache(author_url, cache) == author_url \in DOMAIN cache

\* a store that stores nothing
cache_store_skip(cache, author_url, info) == cache

\* a store that keeps the new entry only
cache_store_evicting(cache, author_url, info) == [u \in {author_url} |-> info]

\* line 130
cache_store(cache, author_url, info) ==
    [u \in DOMAIN cache \cup {author_url} |-> IF u = author_url THEN info ELSE cache[u]]

\* get_author_info that stores an all-empty entry when the fetch fails
get_author_info_negative(author_url, cache, resp) ==
    IF author_url \in DOMAIN cache
    THEN [ret |-> Some(cache[author_url]), cache |-> cache, gets |-> <<>>,
          exc |-> NoExc]
    ELSE IF ~IsSome(resp)
    THEN [ret |-> None,
          cache |-> [u \in DOMAIN cache \cup {author_url} |->
                        IF u = author_url THEN EmptyInfo ELSE cache[u]],
          gets |-> <<author_url>>, exc |-> RequestException(author_url)]
    ELSE LET info == parse_author(Val(resp))
         IN  [ret |-> Some(info),
              cache |-> [u \in DOMAIN cache \cup {author_url} |->
                            IF u = author_url THEN info ELSE cache[u]],
              gets |-> <<author_url>>, exc |-> NoExc]

\* get_author_info(session, author_url, cache): resp is what the server
\* answers if it is asked (None: fetch_page raises).  The result names the
\* value returned, the cache afterwards, the URLs fetched and the
\* exception raised.
get_author_info(author_url, cache, resp) ==
    IF in_cache(author_url, cache)
    THEN [ret |-> Some(cache[author_url]), cache |-> cache, gets |-> <<>>,
          exc |-> NoExc]
    ELSE IF ~IsSome(resp)
    THEN [ret |-> None, cache |-> cache, gets |-> <<author_url>>,
          exc |-> RequestException(author_url)]
    ELSE LET info == parse_author(Val(resp))
         IN  [ret |-> Some(info), cache |-> cache_store(cache, author_url, info),
              gets |-> <<author_url>>, exc |-> NoExc]

-----------------------------------------------------------------------------
(* The server and the record of the requests made to it *)

\* The server answers a URL with or without trailing slashes alike.
server_key(url) == RStrip(url, {SLASH})

RECURSIVE SiteQuotes(_)
SiteQuotes(keys) ==
    IF keys = {} THEN 0
    ELSE LET k == CHOOSE x \in keys : TRUE
         IN  Len(site[k].divs) + SiteQuotes(keys \ {k})

\* What the server may answer to a listing request: the page it already
\* served under that URL, or else any page as its next one.
listing_answers(url) ==
    IF server_key(url) \in DOMAIN site
    THEN {site[server_key(url)]}
    ELSE ListingPages(Cardinality(DOMAIN site) + 1, MaxQuotes - SiteQuotes(DOMAIN site))

site_with(url, page) ==
    [k \in DOMAIN site \cup {server_key(url)} |->
        IF k = server_key(url) THEN page ELSE site[k]]

\* one session.get call: its URL, the call site and whether it returned
Get(url, kind, ok) == [url |-> url, kind |-> kind, ok |-> ok]

RECURSIVE SelectKind(_, _)
SelectKind(log, kind) ==
    IF log = <<>> THEN <<>>
    ELSE IF Head(log).kind = kind
         THEN <<Head(log)>> \o SelectKind(Tail(log), kind)
         ELSE SelectKind(Tail(log), kind)

ListingGets == SelectKind(fetched, "listing")
AuthorGets == SelectKind(fetched, "author")

-----------------------------------------------------------------------------
(* scrape_all *)

\* lines 182-186 without the reset of line 183: the cursor stays when the
\* page has no usable next link
next_url_of_kept(next_link) ==
    IF IsSome(next_link) /\ IsSome(Val(next_link).href) /\ Val(Val(next_link).href) # <<>>
    THEN LET href == strip(Val(Val(next_link).href), {SLASH})
         IN  Some(IF ~startswith(href, HTTP) THEN BASE_URL \o <<SLASH>> \o href ELSE href)
    ELSE next_url

\* lines 182-186 with lstrip in place of strip
next_url_of_lstrip(next_link) ==
    IF IsSome(next_link) /\ IsSome(Val(next_link).href) /\ Val(Val(next_link).href) # <<>>
    THEN LET href == LStrip(Val(Val(next_link).href), {SLASH})
         IN  Some(IF ~startswith(href, HTTP) THEN BASE_URL \o <<SLASH>> \o href ELSE href)
    ELSE None

\* lines 182-186 with a test of the element only: an empty href is resolved
next_url_of_any_href(next_link) ==
    IF IsSome(next_link) /\ IsSome(Val(next_link).href)
    THEN LET href == strip(Val(Val(next_link).href), {SLASH})
         IN  Some(IF ~startswith(href, HTTP) THEN BASE_URL \o <<SLASH>> \o href ELSE href)
    ELSE None

\* lines 182-186: the cursor after a page whose li.next a element is next_link
next_url_of(next_link) ==
    IF IsSome(next_link) /\ IsSome(Val(next_link).href) /\ Val(Val(next_link).href) # <<>>
    THEN LET href == strip(Val(Val(next_link).href), {SLASH})
         IN  Some(IF ~startswith(href, HTTP) THEN BASE_URL \o <<SLASH>> \o href ELSE href)
    ELSE None

\* line 158: the truth value of next_url
cursor_present(url) == IsSome(url) /\ Val(url) # <<>>

\* lines 172-179
make_row(q, author_info) ==
    [quote_text         |-> q.quote_text,
     author_name        |-> q.author_name,
     tags               |-> q.tags,
     author_full_name   |-> author_info.full_name,
     author_birth_date  |-> author_info.birth_date,
     author_birth_place |-> author_info.birth_place]

\* the row put first
prepend_row(all, row) == <<row>> \o all

\* line 180
append_row(all, row) == Append(all, row)

\* lines 158-161, the fetch returns
FetchListing ==
    /\ pc = "loop"
    /\ cursor_present(next_url)
    /\ Len(ListingGets) < MaxFetches
    /\ \E page \in listing_answers(Val(next_url)) :
          /\ site' = site_with(Val(next_url), page)
          /\ soup' = Some(page)
          /\ quotes' = parse_quotes(page)
    /\ fetched' = Append(fetched, Get(Val(next_url), "listing", TRUE))
    /\ qi' = 1
    /\ pc' = "for"
    /\ UNCHANGED <<next_url, author_cache, all_rows, rows, exc, exit, stdout,
                   csv_file, saved, call>>

\* a failed listing fetch taken as the end of the pagination
FetchListingFailsSwallowed ==
    /\ pc = "loop"
    /\ cursor_present(next_url)
    /\ Len(ListingGets) < MaxFetches
    /\ fetched' = Append(fetched, Get(Val(next_url), "listing", FALSE))
    /\ next_url' = None
    /\ UNCHANGED <<pc, exc, soup, quotes, qi, author_cache, all_rows, rows,
                   exit, stdout, csv_file, saved, site, call>>

\* line 159, fetch_page raises: nothing in scrape_all catches it
FetchListingFails ==
    /\ pc = "loop"
    /\ cursor_present(next_url)
    /\ Len(ListingGets) < MaxFetches
    /\ fetched' = Append(fetched, Get(Val(next_url), "listing", FALSE))
    /\ exc' = RequestException(Val(next_url))
    /\ pc' = "raised"
    /\ UNCHANGED <<next_url, soup, quotes, qi, author_cache, all_rows, rows,
                   exit, stdout, csv_file, saved, site, call>>

\* the fragment without author_url resolved like any other
QuoteNoAuthorResolved ==
    /\ pc = "for"
    /\ qi <= Len(quotes)
    /\ quotes[qi].author_url = <<>>
    /\ \E page \in AuthorPages :
          LET r == get_author_info(<<>>, author_cache, Some(page))
          IN  /\ author_cache' = r.cache
              /\ fetched' = fetched \o [i \in 1..Len(r.gets) |-> Get(r.gets[i], "author", TRUE)]
              /\ all_rows' = Append(all_rows, make_row(quotes[qi], Val(r.ret)))
    /\ qi' = qi + 1
    /\ UNCHANGED <<pc, next_url, soup, quotes, rows, exc, exit, stdout,
                   csv_file, saved, site, call>>

\* lines 163-165, 172-180 for a fragment without author_url
QuoteNoAuthor ==
    /\ pc = "for"
    /\ qi <= Len(quotes)
    /\ quotes[qi].author_url = <<>>
    /\ all_rows' = append_row(all_rows, make_row(quotes[qi], EmptyInfo))
    /\ qi' = qi + 1
    /\ UNCHANGED <<pc, next_url, soup, quotes, author_cache, rows, exc, exit,
                   stdout, csv_file, saved, fetched, site, call>>

\* lines 163-169, 172-180: get_author_info returns
QuoteAuthor ==
    /\ pc = "for"
    /\ qi <= Len(quotes)
    /\ quotes[qi].author_url # <<>>
    /\ \E page \in AuthorPages :
          LET url == quotes[qi].author_url
              r == get_author_info(url, author_cache, Some(page))
          IN  /\ r.exc = NoExc
              /\ author_cache' = r.cache
              /\ fetched' = fetched \o [i \in 1..Len(r.gets) |-> Get(r.gets[i], "author", TRUE)]
              /\ all_rows' = append_row(all_rows, make_row(quotes[qi], Val(r.ret)))
    /\ qi' = qi + 1
    /\ UNCHANGED <<pc, next_url, soup, quotes, rows, exc, exit, stdout,
                   csv_file, saved, site, call>>

\* lines 166-171: get_author_info raises RequestException; the except clause
\* takes it and its print evaluates the unbound name e, which raises
\* NameError out of scrape_all
QuoteAuthorFails ==
    /\ pc = "for"
    /\ qi <= Len(quotes)
    /\ quotes[qi].author_url # <<>>
    /\ LET url == quotes[qi].author_url
           r == get_author_info(url, author_cache, None)
       IN  /\ r.exc.type = "RequestException"
           /\ author_cache' = r.cache
           /\ fetched' = fetched \o [i \in 1..Len(r.gets) |-> Get(r.gets[i], "author", FALSE)]
    /\ exc' = NameError
    /\ pc' = "raised"
    /\ UNCHANGED <<next_url, soup, quotes, qi, all_rows, rows, exit, stdout,
                   csv_file, saved, site, call>>

\* lines 182-186, after the last fragment of the page
Advance ==
    /\ pc = "for"
    /\ qi > Len(quotes)
    /\ next_url' = next_url_of(Val(soup).next)
    /\ pc' = "loop"
    /\ UNCHANGED <<soup, quotes, qi, author_cache, all_rows, rows, exc, exit,
                   stdout, csv_file, saved, fetched, site, call>>

\* lines 158, 188: the loop ends and scrape_all returns all_rows to main
Return ==
    /\ pc = "loop"
    /\ ~cursor_present(next_url)
    /\ rows' = Some(all_rows)
    /\ pc' = "save"
    /\ UNCHANGED <<next_url, soup, quotes, qi, author_cache, all_rows, exc,
                   exit, stdout, csv_file, saved, fetched, site, call>>

-----------------------------------------------------------------------------
(* save_to_csv, main *)

OUTPUT_PATH == "output.csv"

\* list(rows[0].keys()): the keys of the row literal of lines 172-179
ROW_KEYS ==
    <<"quote_text", "author_name", "tags", "author_full_name",
      "author_birth_date", "author_birth_place">>

csv_line(row, fieldnames) == [i \in 1..Len(fieldnames) |-> row[fieldnames[i]]]

\* save_to_csv that writes nothing
save_to_csv_nothing(rs, file) == file

\* save_to_csv that opens the file for writing before it looks at rows
save_to_csv_truncating(rs, file) ==
    IF rs = <<>> THEN Some(<<>>)
    ELSE Some(<<ROW_KEYS>> \o [i \in 1..Len(rs) |-> csv_line(rs[i], ROW_KEYS)])

\* save_to_csv(rows, filepath): the file at filepath afterwards
save_to_csv(rs, file) ==
    IF rs = <<>> THEN file
    ELSE Some(<<ROW_KEYS>> \o [i \in 1..Len(rs) |-> csv_line(rs[i], ROW_KEYS)])

\* line 213
SaveToCsv ==
    /\ pc = "save"
    /\ csv_file' = save_to_csv(Val(rows), csv_file)
    /\ saved' = Append(saved, Val(rows))
    /\ pc' = "report"
    /\ UNCHANGED <<next_url, soup, quotes, qi, author_cache, all_rows, rows,
                   exc, exit, stdout, fetched, site, call>>

\* line 214, then the process ends normally
Report ==
    /\ pc = "report"
    /\ stdout' = Append(stdout, [text |-> "Done. Scraped", count |-> Len(Val(rows)),
                                 path |-> OUTPUT_PATH])
    /\ exit' = Some([status |-> 0, message |-> "", cause |-> NoExc])
    /\ pc' = "exited"
    /\ UNCHANGED <<next_url, soup, quotes, qi, author_cache, all_rows, rows,
                   exc, csv_file, saved, fetched, site, call>>

\* lines 215-216: a RequestException out of the try block becomes SystemExit
MainExcept ==
    /\ pc = "raised"
    /\ exc.type = "RequestException"
    /\ exit' = Some([status |-> 1, message |-> "Scraping failed (network/timeout): ",
                     cause |-> exc])
    /\ pc' = "exited"
    /\ UNCHANGED <<next_url, soup, quotes, qi, author_cache, all_rows, rows,
                   exc, stdout, csv_file, saved, fetched, site, call>>

\* any other exception leaves main: the interpreter prints the traceback
\* and ends the process with status 1
Uncaught ==
    /\ pc = "raised"
    /\ exc.type # "RequestException"
    /\ exit' = Some([status |-> 1, message |-> "Traceback", cause |-> exc])
    /\ pc' = "exited"
    /\ UNCHANGED <<next_url, soup, quotes, qi, author_cache, all_rows, rows,
                   exc, stdout, csv_file, saved, fetched, site, call>>

-----------------------------------------------------------------------------
(* The run of main *)

OldFile == Some(<< <<"old">> >>)

Init ==
    /\ pc = "loop"
    /\ next_url = Some(BASE_URL)
    /\ soup = None
    /\ quotes = <<>>
    /\ qi = 1
    /\ author_cache = EmptyCache
    /\ all_rows = <<>>
    /\ rows = None
    /\ exc = NoExc
    /\ exit = None
    /\ stdout = <<>>
    /\ csv_file \in {None, OldFile}
    /\ saved = <<>>
    /\ fetched = <<>>
    /\ site = [k \in {} |-> None]
    /\ call = <<>>

Next ==
    \/ FetchListing
    \/ FetchListingFails
    \/ QuoteNoAuthor
    \/ QuoteAuthor
    \/ QuoteAuthorFails
    \/ Advance
    \/ Return
    \/ SaveToCsv
    \/ Report
    \/ MainExcept
    \/ Uncaught

Spec == Init /\ [][Next]_vars

-----------------------------------------------------------------------------
(* get_author_info called on its own: a driver calls it MaxCalls times in  *)
(* a row with one URL and one cache, the server answering each fetch as it *)
(* likes.  call.results records, per call, the cache before it and what    *)
(* the call did.                                                           *)

AuthorUrls ==
    {author_url_of(h) : h \in {DivA.href, DivB.href,
                               Some(<<"/", "a", "u", "t", "h", "o", "r", "/", "c">>)}}
Infos == {parse_author(p) : p \in AuthorPages}
Caches == UNION {[D -> Infos] : D \in SUBSET AuthorUrls}

ResolveInit ==
    /\ pc = "resolve"
    /\ call \in [url : AuthorUrls, results : {<<>>}]
    /\ author_cache \in Caches
    /\ fetched = <<>>
    /\ exc = NoExc
    /\ next_url = None
    /\ soup = None
    /\ quotes = <<>>
    /\ qi = 1
    /\ all_rows = <<>>
    /\ rows = None
    /\ exit = None
    /\ stdout = <<>>
    /\ csv_file = None
    /\ saved = <<>>
    /\ site = [k \in {} |-> None]

Resolve(resp) ==
    LET r == get_author_info(call.url, author_cache, resp)
    IN  /\ author_cache' = r.cache
        /\ fetched' = fetched \o [i \in 1..Len(r.gets) |-> Get(r.gets[i], "author", r.exc = NoExc)]
        /\ exc' = r.exc
        /\ call' = [call EXCEPT !.results =
                       Append(@, [before |-> author_cache, ret |-> r.ret,
                                  exc |-> r.exc, gets |-> r.gets])]

\* a call that returns: from the cache, or after a fetch that succeeded
ResolveReturns ==
    /\ pc = "resolve"
    /\ Len(call.results) < MaxCalls
    /\ \E page \in AuthorPages :
          /\ get_author_info(call.url, author_cache, Some(page)).exc = NoExc
          /\ Resolve(Some(page))
    /\ UNCHANGED <<pc, next_url, soup, quotes, qi, all_rows, rows, exit, stdout,
                   csv_file, saved, site>>

\* a call whose fetch fails: the driver catches the exception and goes on
ResolveRaises ==
    /\ pc = "resolve"
    /\ Len(call.results) < MaxCalls
    /\ get_author_info(call.url, author_cache, None).exc # NoExc
    /\ Resolve(None)
    /\ UNCHANGED <<pc, next_url, soup, quotes, qi, all_rows, rows, exit, stdout,
                   csv_file, saved, site>>

ResolveNext == ResolveReturns \/ ResolveRaises

ResolveSpec == ResolveInit /\ [][ResolveNext]_vars

-----------------------------------------------------------------------------
(* Helpers of the properties *)

IsPrefix(s, t) == Len(s) <= Len(t) /\ SubSeq(t, 1, Len(s)) = s

\* this step made one more session.get call, of the given kind and outcome
GetMade(kind, ok) ==
    /\ Len(fetched') = Len(fetched) + 1
    /\ fetched'[Len(fetched')].kind = kind
    /\ fetched'[Len(fetched')].ok = ok

AllOk(log) == \A i \in 1..Len(log) : log[i].ok
SomeFailed(log) == \E i \in 1..Len(log) : ~log[i].ok

\* the fragments parse_quotes found on the listing pages fetched so far,
\* page after page
RECURSIVE FragmentsOf(_)
FragmentsOf(log) ==
    IF log = <<>> THEN <<>>
    ELSE (IF Head(log).ok THEN parse_quotes(site[server_key(Head(log).url)]) ELSE <<>>)
         \o FragmentsOf(Tail(log))

FragmentsFound == FragmentsOf(ListingGets)

HasEmptyAuthor(row) ==
    /\ row.author_full_name = <<>>
    /\ row.author_birth_date = <<>>
    /\ row.author_birth_place = <<>>

-----------------------------------------------------------------------------
(* C1: a fragment whose author detail fetch fails with a network error     *)
(* still gets its row, with the three author fields empty, and the crawl   *)
(* goes on with the next fragment.                                         *)
C1_RowKeptOnAuthorFailure ==
    [][GetMade("author", FALSE) =>
          /\ all_rows' = Append(all_rows, make_row(quotes[qi], EmptyInfo))
          /\ HasEmptyAuthor(all_rows'[Len(all_rows')])
          /\ pc' = "for"
          /\ qi' = qi + 1]_vars

(* C2: when scrape_all is over and every listing fetch succeeded, it has   *)
(* returned as many rows as parse_quotes found fragments on the pages      *)
(* fetched, whatever the author fetches did.                               *)
C2_RowCount ==
    (pc = "exited" /\ AllOk(ListingGets)) =>
        /\ IsSome(rows)
        /\ Len(Val(rows)) = Len(FragmentsFound)

(* C3: in one run of scrape_all no author detail URL is fetched twice.     *)
C3_AuthorFetchedOnce ==
    \A i, j \in 1..Len(AuthorGets) :
        i < j => AuthorGets[i].url # AuthorGets[j].url

\* three fragments were joined, two of them with the same author URL, and
\* that URL was fetched once
C3_Witness ==
    /\ Len(all_rows) >= 3
    /\ \E i, j \in 1..Len(FragmentsFound) :
          /\ i < j
          /\ j <= Len(all_rows)
          /\ FragmentsFound[i].author_url # <<>>
          /\ FragmentsFound[i].author_url = FragmentsFound[j].author_url
          /\ Cardinality({k \in 1..Len(AuthorGets) :
                            AuthorGets[k].url = FragmentsFound[i].author_url}) = 1

-----------------------------------------------------------------------------
(* Helpers of the properties of ResolveSpec *)

Results == call.results

\* the cache as call i of the driver left it
CacheAfter(i) == IF i < Len(Results) THEN Results[i + 1].before ELSE author_cache

RECURSIVE GetsBefore(_)
GetsBefore(i) == IF i <= 1 THEN 0 ELSE Len(Results[i - 1].gets) + GetsBefore(i - 1)

\* call i of the driver fetched and the fetch failed
FetchFailedIn(i) ==
    /\ Results[i].gets # <<>>
    /\ ~fetched[GetsBefore(i) + 1].ok

(* C4, as claimed: two calls of get_author_info in a row, with one URL and *)
(* one cache, make at most one fetch between them.                         *)
C4_TwoCallsOneFetch ==
    \A i \in 1..(Len(Results) - 1) :
        Len(Results[i].gets) + Len(Results[i + 1].gets) <= 1

(* C4, amended: when the first of two calls in a row returns, the second   *)
(* makes no fetch and returns the same value, so the two make at most one  *)
(* fetch; when the fetch of the first fails, the second call fetches       *)
(* again.                                                                  *)
C4_SecondCallCached ==
    \A i \in 1..(Len(Results) - 1) :
        /\ Results[i].exc = NoExc =>
              /\ Results[i + 1].gets = <<>>
              /\ Results[i + 1].exc = NoExc
              /\ Results[i + 1].ret = Results[i].ret
              /\ Len(Results[i].gets) + Len(Results[i + 1].gets) <= 1
        /\ Results[i].exc # NoExc => Results[i + 1].gets = <<call.url>>

\* the first call fetched and stored, the second call fetched nothing
C4_Witness ==
    /\ Len(Results) >= 2
    /\ Results[1].gets = <<call.url>>
    /\ Results[1].exc = NoExc
    /\ Results[2].gets = <<>>
    /\ Len(fetched) = 1

(* C10: a call of get_author_info whose fetch fails leaves the cache as it *)
(* was before the call, with no entry under the URL, returns nothing and   *)
(* raises the RequestException of the fetch to its caller.                 *)
C10_FailureLeavesCache ==
    \A i \in 1..Len(Results) :
        FetchFailedIn(i) =>
            /\ CacheAfter(i) = Results[i].before
            /\ call.url \notin DOMAIN CacheAfter(i)
            /\ Results[i].exc = RequestException(call.url)
            /\ Results[i].ret = None

\* a fetch failed in a call made with a cache that held another author
C10_Witness ==
    \E i \in 1..Len(Results) :
        /\ FetchFailedIn(i)
        /\ DOMAIN Results[i].before # {}
        /\ exc = RequestException(call.url)

-----------------------------------------------------------------------------
(* Helpers of the properties of Spec *)

Keys(log) == [i \in 1..Len(log) |-> server_key(log[i].url)]

\* where a link with this href leads: the href joined to the base URL
link_target(href) ==
    IF startswith(href, HTTP) THEN href
    ELSE IF startswith(href, <<SLASH>>) THEN BASE_URL \o href
    ELSE BASE_URL \o <<SLASH>> \o href

\* the listing pages of the site from page k on, following the next links
RECURSIVE ChainFrom(_, _)
ChainFrom(k, fuel) ==
    IF fuel = 0 \/ k \notin DOMAIN site THEN <<>>
    ELSE LET nl == site[k].next
         IN  <<k>> \o
             (IF IsSome(nl) /\ IsSome(Val(nl).href) /\ Val(Val(nl).href) # <<>>
              THEN ChainFrom(server_key(link_target(Val(Val(nl).href))), fuel - 1)
              ELSE <<>>)

Chain == ChainFrom(server_key(BASE_URL), Cardinality(DOMAIN site) + 1)

\* the site is a chain of pages, each but the last linking to the next
\* one, the last one with no next element
ChainWellFormed ==
    /\ Chain # <<>>
    /\ Len(Chain) <= Cardinality(DOMAIN site)
    /\ site[Chain[Len(Chain)]].next = None

Returned == IsSome(rows)

(* C5: a listing fetch that fails is the last fetch of the run; no rows    *)
(* are returned, save_to_csv is not called and output.csv stays as it was; *)
(* the exception reaches main, which ends the process with status 1 and a  *)
(* message made from that exception.                                       *)
C5_ListingFailureFatal ==
    \A i \in 1..Len(fetched) :
        (fetched[i].kind = "listing" /\ ~fetched[i].ok) =>
            /\ i = Len(fetched)
            /\ rows = None
            /\ saved = <<>>
            /\ stdout = <<>>
            /\ csv_file \in {None, OldFile}
            /\ pc \in {"raised", "exited"}
            /\ exc = RequestException(fetched[i].url)
            /\ pc = "exited" =>
                  exit = Some([status |-> 1,
                               message |-> "Scraping failed (network/timeout): ",
                               cause |-> RequestException(fetched[i].url)])

\* the fetch of a later listing page failed after rows were accumulated,
\* and the process has ended with the old file in place
C5_Witness ==
    /\ pc = "exited"
    /\ Len(ListingGets) >= 2
    /\ ~fetched[Len(fetched)].ok
    /\ fetched[Len(fetched)].kind = "listing"
    /\ all_rows # <<>>
    /\ csv_file = OldFile

(* C6: a run in which every listing fetch succeeded and an author fetch    *)
(* failed ends with status 0, after save_to_csv was called with the rows.  *)
C6_AuthorFailureNotFatal ==
    (pc = "exited" /\ AllOk(ListingGets) /\ SomeFailed(AuthorGets)) =>
        /\ Val(exit).status = 0
        /\ Returned
        /\ saved = <<Val(rows)>>

(* C7: on a site that is a chain of N listing pages ending in a page with  *)
(* no next element, with every fetch succeeding, the listing fetches are   *)
(* at every moment the first pages of the chain in chain order, so never   *)
(* more than N; until the process has ended the run always has a step to   *)
(* take; and when scrape_all has returned the fetches are exactly the N    *)
(* pages, once each.                                                       *)
C7_ChainFetchedOnceInOrder ==
    (ChainWellFormed /\ AllOk(fetched)) =>
        /\ IsPrefix(Keys(ListingGets), Chain)
        /\ pc # "exited" => ENABLED Next
        /\ Returned => (Keys(ListingGets) = Chain /\ Len(ListingGets) = Len(Chain))

\* scrape_all returned from a chain of three pages
C7_Witness ==
    /\ Returned
    /\ ChainWellFormed
    /\ AllOk(fetched)
    /\ Len(Chain) = 3
    /\ Len(ListingGets) = 3

(* C8: the step that handles a fragment with an empty author_url makes no  *)
(* fetch, leaves the cache unchanged and appends the fragment's row with   *)
(* the three author fields empty.                                          *)
C8_NoAuthorLinkNoFetch ==
    [][(pc = "for" /\ qi <= Len(quotes) /\ quotes[qi].author_url = <<>>) =>
          /\ fetched' = fetched
          /\ author_cache' = author_cache
          /\ all_rows' = Append(all_rows, make_row(quotes[qi], EmptyInfo))
          /\ HasEmptyAuthor(all_rows'[Len(all_rows')])]_vars

\* a fragment with no author link was just joined while the cache held an
\* author
C8_Witness ==
    /\ pc = "for"
    /\ qi > 1
    /\ quotes[qi - 1].author_url = <<>>
    /\ DOMAIN author_cache # {}
    /\ HasEmptyAuthor(all_rows[Len(all_rows)])
    /\ Len(AuthorGets) = Cardinality(DOMAIN author_cache)

QuoteFields(r) == <<r.quote_text, r.author_name, r.tags>>

(* C9: the rows are in discovery order: row i is the row of the i-th       *)
(* fragment found, pages in fetch order and fragments in page order;       *)
(* scrape_all returns them in that order; and no step changes, moves or    *)
(* removes a row already appended.                                         *)
C9_DiscoveryOrder ==
    /\ [](LET found == FragmentsFound
          IN  /\ Len(all_rows) <= Len(found)
              /\ \A i \in 1..Len(all_rows) :
                    QuoteFields(all_rows[i]) = QuoteFields(found[i])
              /\ Returned => Val(rows) = all_rows)
    /\ [][IsPrefix(all_rows, all_rows')]_vars

\* rows of two pages were returned, the first page holding two different
\* fragments
C9_Witness ==
    /\ Returned
    /\ Len(ListingGets) >= 2
    /\ Len(Val(rows)) >= 3
    /\ Len(site[server_key(BASE_URL)].divs) = 2
    /\ Val(rows)[1].quote_text # Val(rows)[2].quote_text
    /\ Val(rows)[2].quote_text # Val(rows)[3].quote_text

-----------------------------------------------------------------------------
(* C11: during a run of scrape_all the cache only grows: a URL that is a   *)
(* key stays a key in the next state, with the same value.                 *)
C11_CacheOnlyGrows ==
    [][\A u \in DOMAIN author_cache :
          /\ u \in DOMAIN author_cache'
          /\ author_cache'[u] = author_cache[u]]_vars

\* a second author was stored and, later, a fragment of the first author
\* was joined from the cache
C11_Witness ==
    /\ Cardinality(DOMAIN author_cache) = 2
    /\ Len(AuthorGets) = 2
    /\ Len(all_rows) = 3
    /\ FragmentsFound[3].author_url = AuthorGets[1].url

-----------------------------------------------------------------------------
(* URL resolution on its own: a driver resolves one href as parse_quotes   *)
(* resolves an author link (call.kind = "author") or as scrape_all         *)
(* resolves a next link (call.kind = "next"), then resolves the result     *)
(* again, MaxResolves resolutions in all.  call.outs holds the results.    *)

HrefChars == {SLASH, "a"}

\* the non-empty hrefs: relative ones, and absolute ones on the site's host
Hrefs ==
    {p \o b : p \in {<<>>, BASE_URL}, b \in SeqsUpTo(HrefChars, MaxHrefLen)} \ {<<>>}

UrlInit ==
    /\ pc = "url"
    /\ call \in [kind : {"author", "next"}, href : Hrefs, outs : {<<>>}]
    /\ author_cache = EmptyCache
    /\ fetched = <<>>
    /\ exc = NoExc
    /\ next_url = None
    /\ soup = None
    /\ quotes = <<>>
    /\ qi = 1
    /\ all_rows = <<>>
    /\ rows = None
    /\ exit = None
    /\ stdout = <<>>
    /\ csv_file = None
    /\ saved = <<>>
    /\ site = [k \in {} |-> None]

\* what the next resolution is applied to
UrlInput == IF call.outs = <<>> THEN call.href ELSE call.outs[Len(call.outs)]

\* lines 56-60 applied to an a element with this href
ResolveAuthorLink ==
    /\ pc = "url"
    /\ call.kind = "author"
    /\ Len(call.outs) < MaxResolves
    /\ call' = [call EXCEPT !.outs = Append(@, author_url_of(Some(UrlInput)))]
    /\ UNCHANGED <<pc, next_url, soup, quotes, qi, author_cache, all_rows, rows,
                   exc, exit, stdout, csv_file, saved, fetched, site>>

\* lines 182-186 applied to a li.next a element with this href
ResolveNextLink ==
    /\ pc = "url"
    /\ call.kind = "next"
    /\ Len(call.outs) < MaxResolves
    /\ call' = [call EXCEPT !.outs =
                   Append(@, Val(next_url_of(Some([href |-> Some(UrlInput)]))))]
    /\ UNCHANGED <<pc, next_url, soup, quotes, qi, author_cache, all_rows, rows,
                   exc, exit, stdout, csv_file, saved, fetched, site>>

UrlNext == ResolveAuthorLink \/ ResolveNextLink

UrlSpec == UrlInit /\ [][UrlNext]_vars

IsAbsolute(url) == startswith(url, HTTP)

(* C12, as claimed: resolving an already-absolute URL returns it           *)
(* unchanged, and resolving the result of a resolution again gives the     *)
(* same URL.                                                               *)
C12_ResolutionStable ==
    /\ (call.outs # <<>> /\ IsAbsolute(call.href)) => call.outs[1] = call.href
    /\ \A i \in 1..(Len(call.outs) - 1) : call.outs[i + 1] = call.outs[i]

(* C12, amended: resolving an already-absolute URL returns it with its     *)
(* trailing slashes stripped, so unchanged when it has none; the result of *)
(* a resolution is absolute; resolving it again gives the same URL, unless *)
(* the href is made of slashes only: then the first result is the base URL *)
(* with a slash and every further one is the base URL.                     *)
C12_ResolutionStableUpToSlashes ==
    /\ (call.outs # <<>> /\ IsAbsolute(call.href)) =>
          /\ call.outs[1] = RStrip(call.href, {SLASH})
          /\ call.href[Len(call.href)] # SLASH => call.outs[1] = call.href
    /\ \A i \in 1..Len(call.outs) : IsAbsolute(call.outs[i])
    /\ \A i \in 1..(Len(call.outs) - 1) :
          IF i = 1 /\ strip(call.href, {SLASH}) = <<>>
          THEN call.outs[1] = BASE_URL \o <<SLASH>> /\ call.outs[2] = BASE_URL
          ELSE call.outs[i + 1] = call.outs[i]

\* a next link with an absolute href that ends in a slash was resolved, and
\* the result resolved again
C12_Witness ==
    /\ pc = "url"
    /\ call.kind = "next"
    /\ IsAbsolute(call.href)
    /\ call.href[Len(call.href)] = SLASH
    /\ Len(call.outs) = 2
    /\ call.outs[1] # call.href
    /\ call.outs[2] = call.outs[1]

-----------------------------------------------------------------------------
(* Helpers of the properties of save_to_csv and main *)

\* the file that holds the header and one line per row, in row order
ExpectFile(rs) ==
    Some([i \in 1..(Len(rs) + 1) |->
            IF i = 1 THEN ROW_KEYS
            ELSE [j \in 1..Len(ROW_KEYS) |-> rs[i - 1][ROW_KEYS[j]]]])

\* output.csv was written since the process started
WrittenByRun == IsSome(csv_file) /\ csv_file # OldFile

Reported == stdout # <<>>

DoneReport(n) == [text |-> "Done. Scraped", count |-> n, path |-> OUTPUT_PATH]

(* C13, as claimed: once scrape_all has returned, the report of the count  *)
(* and the successful exit come only after output.csv was written, for     *)
(* every number of rows, zero included.                                    *)
C13_FileWrittenThenReport ==
    Returned =>
        /\ (Reported \/ pc = "exited") => WrittenByRun
        /\ pc = "exited" =>
              /\ stdout = <<DoneReport(Len(Val(rows)))>>
              /\ Val(exit).status = 0

(* C13, amended: once scrape_all has returned, main calls save_to_csv with *)
(* the rows and only then reports their count and exits with status 0;     *)
(* the file holds the rows when there is at least one row and is left as   *)
(* it was when there is none.  Nothing is reported before scrape_all       *)
(* returns.                                                                *)
C13_SaveThenReport ==
    /\ ~Returned => (~Reported /\ saved = <<>>)
    /\ Returned =>
          /\ pc \in {"save", "report", "exited"}
          /\ pc # "exited" => (~Reported /\ ENABLED Next)
          /\ pc # "save" =>
                /\ saved = <<Val(rows)>>
                /\ Val(rows) # <<>> => csv_file = ExpectFile(Val(rows))
                /\ Val(rows) = <<>> => ~WrittenByRun
          /\ pc = "exited" =>
                /\ stdout = <<DoneReport(Len(Val(rows)))>>
                /\ exit = Some([status |-> 0, message |-> "", cause |-> NoExc])

\* a crawl that found no quote has ended with its report and the old file
\* still in place
C13_Witness ==
    /\ pc = "exited"
    /\ Returned
    /\ Val(rows) = <<>>
    /\ Reported
    /\ csv_file = OldFile
    /\ Len(ListingGets) >= 2

(* C14: the call of save_to_csv leaves the file as it was, absent or old,  *)
(* when it is given no rows; given rows, it leaves a file of one header    *)
(* line, the field names of the first row, followed by exactly one line    *)
(* per row, in row order.                                                  *)
C14_SaveToCsv ==
    [][pc = "save" =>
          /\ Val(rows) = <<>> => csv_file' = csv_file
          /\ Val(rows) # <<>> =>
                /\ IsSome(csv_file')
                /\ Len(Val(csv_file')) = 1 + Len(Val(rows))
                /\ Val(csv_file')[1] = ROW_KEYS
                /\ \A i \in 1..Len(Val(rows)) : \A j \in 1..Len(ROW_KEYS) :
                      Val(csv_file')[i + 1][j] = Val(rows)[i][ROW_KEYS[j]]]_vars

\* save_to_csv was called with no rows while an old file existed, and the
\* old file is still there
C14_Witness ==
    /\ pc = "report"
    /\ saved = << <<>> >>
    /\ csv_file = OldFile

-----------------------------------------------------------------------------
(* parse_quotes on its own: a listing page with one quote record whose     *)
(* span.text holds any short text of quotation marks, letters and blanks   *)
(* is parsed; call.out holds the quote_text found.                         *)

TextChars == {Q, "a", " "}
Texts == SeqsUpTo(TextChars, MaxTextLen)

TextInit ==
    /\ pc = "text"
    /\ call \in [text : Texts, out : {None}]
    /\ author_cache = EmptyCache
    /\ fetched = <<>>
    /\ exc = NoExc
    /\ next_url = None
    /\ soup = None
    /\ quotes = <<>>
    /\ qi = 1
    /\ all_rows = <<>>
    /\ rows = None
    /\ exit = None
    /\ stdout = <<>>
    /\ csv_file = None
    /\ saved = <<>>
    /\ site = [k \in {} |-> None]

\* line 161 on a page with the one record
ParseText ==
    /\ pc = "text"
    /\ call.out = None
    /\ LET page == [divs |-> <<[DivPlain EXCEPT !.text = Some(call.text)]>>,
                    next |-> None]
       IN  /\ soup' = Some(page)
           /\ quotes' = parse_quotes(page)
           /\ call' = [call EXCEPT !.out = Some(parse_quotes(page)[1].quote_text)]
    /\ UNCHANGED <<pc, next_url, qi, author_cache, all_rows, rows, exc, exit,
                   stdout, csv_file, saved, fetched, site>>

TextSpec == TextInit /\ [][ParseText]_vars

\* one leading and one trailing quotation mark removed, when present
StripOneLayer(s) ==
    LET a == IF s # <<>> /\ Head(s) = Q THEN Tail(s) ELSE s
    IN  IF a # <<>> /\ a[Len(a)] = Q THEN SubSeq(a, 1, Len(a) - 1) ELSE a

(* C15: the quote_text parse_quotes produces is the text of the element    *)
(* with one layer of surrounding quotation marks stripped: one leading and *)
(* one trailing mark removed when present, every other mark kept.          *)
C15_SingleLayerStripped ==
    IsSome(call.out) => Val(call.out) = StripOneLayer(get_text(call.text))

-----------------------------------------------------------------------------
(* C16: every row joined from a fragment with an author URL carries the    *)
(* author info the cache holds under that URL, so two rows of one author   *)
(* URL have the same author_full_name, author_birth_date and               *)
(* author_birth_place, whatever the server would answer to another fetch.  *)
C16_JoinConsistency ==
    LET found == FragmentsFound
    IN  \A i \in 1..Len(all_rows) :
            LET u == found[i].author_url
            IN  u # <<>> =>
                   /\ u \in DOMAIN author_cache
                   /\ all_rows[i] = make_row(found[i], author_cache[u])
                   /\ \A j \in 1..Len(all_rows) :
                         found[j].author_url = u =>
                            /\ all_rows[j].author_full_name = all_rows[i].author_full_name
                            /\ all_rows[j].author_birth_date = all_rows[i].author_birth_date
                            /\ all_rows[j].author_birth_place = all_rows[i].author_birth_place

\* two rows of one author were joined, the author's page was fetched once
\* and held a name
C16_Witness ==
    \E i, j \in 1..Len(all_rows) :
        /\ i < j
        /\ FragmentsFound[i].author_url # <<>>
        /\ FragmentsFound[i].author_url = FragmentsFound[j].author_url
        /\ all_rows[j].author_full_name # <<>>
        /\ all_rows[j].author_birth_place = <<"X">>
        /\ Len(AuthorGets) = 1

-----------------------------------------------------------------------------
\* the page has no next element, or one whose href is missing or empty
NoUsableNext(page) ==
    \/ page.next = None
    \/ Val(page.next).href = None
    \/ Val(Val(page.next).href) = <<>>

(* C17: the step after the last fragment of a page makes the cursor absent *)
(* when the page has no next element or one with a missing or empty href,  *)
(* and otherwise makes it the URL the href leads to; with the cursor       *)
(* absent the next step is the return of scrape_all, with no fetch; with   *)
(* the cursor present the next step is one listing fetch of the cursor.    *)
C17_CursorEnd ==
    /\ [][(pc = "for" /\ qi > Len(quotes)) =>
             /\ fetched' = fetched
             /\ pc' = "loop"
             /\ IF NoUsableNext(Val(soup))
                THEN next_url' = None
                ELSE /\ IsSome(next_url')
                     /\ server_key(Val(next_url')) =
                           server_key(link_target(Val(Val(Val(soup).next).href)))]_vars
    /\ [][pc = "loop" =>
             IF next_url = None
             THEN /\ fetched' = fetched
                  /\ rows' = Some(all_rows)
                  /\ pc' = "save"
             ELSE /\ Len(fetched') = Len(fetched) + 1
                  /\ fetched'[Len(fetched')].kind = "listing"
                  /\ fetched'[Len(fetched')].url = Val(next_url)
                  /\ pc' \in {"for", "raised"}]_vars
    /\ []((pc = "loop" /\ next_url = None) => ENABLED Return)

\* the second page had a next element without href, and the cursor is
\* absent
C17_Witness ==
    /\ pc = "loop"
    /\ next_url = None
    /\ Len(ListingGets) = 2
    /\ Val(soup).next = Some([href |-> None])

-----------------------------------------------------------------------------
RECURSIVE Distinct(_)
Distinct(s) ==
    \/ s = <<>>
    \/ /\ \A i \in 2..Len(s) : s[i] # s[1]
       /\ Distinct(Tail(s))

\* following the next links from the root never leads back to a page
\* already on the way
NextLinksAdvance == Len(Chain) <= Cardinality(DOMAIN site)

(* C18, as claimed: in one run of scrape_all no listing URL is fetched     *)
(* twice.                                                                  *)
C18_NoRevisit ==
    Distinct([i \in 1..Len(ListingGets) |-> ListingGets[i].url])

(* C18, amended: as long as no next link leads back to a listing page      *)
(* already fetched, no listing page, and so no listing URL, is fetched     *)
(* twice in one run of scrape_all; once a next link has led back,          *)
(* scrape_all does not return.                                             *)
C18_NoRevisitWhileAdvancing ==
    /\ NextLinksAdvance =>
          /\ Distinct(Keys(ListingGets))
          /\ Distinct([i \in 1..Len(ListingGets) |-> ListingGets[i].url])
    /\ ~NextLinksAdvance => ~Returned

\* three pages were fetched, each linked from the one before
C18_Witness ==
    /\ NextLinksAdvance
    /\ Len(ListingGets) = 3
    /\ AllOk(ListingGets)
    /\ Len(Chain) = 3

=============================================================================
